---------------------------- MODULE Spec2Model ----------------------------
(***************************************************************************)
(* Model of viz.py: three chart builders over cleaned survey tables        *)
(* (weighted aggregation, baseline join, hover-linked map) and the         *)
(* load / build / export script that runs them.                            *)
(*                                                                         *)
(* Numbers.  Percentages are kept in tenths (28.0 is 280).  A float is a   *)
(* record [t, n, d]: t = "fin" is the exact rational n/d in lowest terms   *)
(* with d > 0, t = "nan" is NaN (pandas' missing value), t = "inf" is      *)
(* +inf (n = 1) or -inf (n = -1).  A cell read from a CSV file can also be *)
(* t = "str": text that does not parse as a number.  Rounding of binary    *)
(* floating point is not modelled: arithmetic on "fin" values is exact.    *)
(***************************************************************************)
EXTENDS Integers, Sequences, FiniteSets, TLC

VARIABLES
    files,            \* the input files present under Data/
    disk,             \* output file name -> "absent" | "stale" | "written" | "partial"
    pc,               \* position of the __main__ script
    raised,           \* "none", or the statement of __main__ that raised
    df_map_raw,       \* the three loaded tables
    df_age_raw,
    df_income_raw,
    df_nat,           \* make_age_heatmap: the aggregated table
    age_chart,        \* "none" | "built" | "error"
    df_map,           \* make_trend_and_map: the table with its id column
    trend_map_chart,  \* "none" | "built" | "error"
    hover_year,       \* the selection of the trend+map view: {} or {year}
    df_inc_agg,       \* make_income_trend: aggregated, joined, with Growth
    income_chart      \* "none" | "built" | "error"

vars == <<files, disk, pc, raised, df_map_raw, df_age_raw, df_income_raw, df_nat,
          age_chart, df_map, trend_map_chart, hover_year, df_inc_agg,
          income_chart>>

---------------------------------------------------------------------------
(* Bounds of the model *)

MaxRows == 3

---------------------------------------------------------------------------
(* Floats *)

Fin(v) == [t |-> "fin", n |-> v, d |-> 1]
NaN == [t |-> "nan", n |-> 0, d |-> 1]
PInf == [t |-> "inf", n |-> 1, d |-> 0]
NInf == [t |-> "inf", n |-> -1, d |-> 0]
Str == [t |-> "str", n |-> 0, d |-> 1]

Abs(x) == IF x < 0 THEN -x ELSE x

RECURSIVE Gcd(_, _)
Gcd(a, b) == IF b = 0 THEN a ELSE Gcd(b, a % b)

\* the rational n/d (d # 0) in lowest terms with a positive denominator
Norm(n, d) ==
    LET g == Gcd(Abs(n), Abs(d))
        s == IF d < 0 THEN -1 ELSE 1
    IN  [t |-> "fin", n |-> (s * n) \div g, d |-> (s * d) \div g]

\* a division that yields 0 for 0 / 0
FloatDivZero(n, d) ==
    IF d # 0 THEN Norm(n, d)
    ELSE IF n = 0 THEN Fin(0) ELSE IF n > 0 THEN PInf ELSE NInf

\* float division of two finite sums: x / 0 is nan or +-inf, never an error
FloatDiv(n, d) ==
    IF d # 0 THEN Norm(n, d)
    ELSE IF n = 0 THEN NaN ELSE IF n > 0 THEN PInf ELSE NInf

\* float subtraction a - b
FloatSub(a, b) ==
    IF a.t = "nan" \/ b.t = "nan" THEN NaN
    ELSE IF a.t = "inf" /\ b.t = "inf" THEN (IF a.n = b.n THEN NaN ELSE a)
    ELSE IF a.t = "inf" THEN a
    ELSE IF b.t = "inf" THEN (IF b.n > 0 THEN NInf ELSE PInf)
    ELSE Norm(a.n * b.d - b.n * a.d, a.d * b.d)

---------------------------------------------------------------------------
(* pandas steps shared by the age and the income builder *)

\* pd.to_numeric(errors="coerce"): a number stays, anything else is NaN
to_numeric(c) == IF c.t \in {"fin", "inf"} THEN c ELSE NaN

CoerceSampleSize(df) ==
    [i \in DOMAIN df |-> [df[i] EXCEPT !.Sample_Size = to_numeric(@)]]

\* dropna(subset=["Sample_Size", "Data_Value"])
dropna(df) ==
    SelectSeq(df, LAMBDA r : r.Sample_Size.t # "nan" /\ r.Data_Value.t # "nan")

\* read_csv gives a column holding any unparseable text the dtype object:
\* its cells are then text, and arithmetic on them raises
ObjectColumn(df) == \E i \in DOMAIN df : df[i].Data_Value.t = "str"

\* Python's string order on the category labels (groupby sorts its keys)
StrOrder ==
    [s \in {"$15,000 - $24,999", "$25,000 - $34,999", "$35,000 - $49,999",
            "$50,000 - $74,999", "$75,000 or greater", "18 - 24", "25 - 34",
            "35 - 44", "45 - 54", "55 - 64", "65 or older",
            "Less than $15,000"} |->
        CASE s = "$15,000 - $24,999" -> 1
          [] s = "$25,000 - $34,999" -> 2
          [] s = "$35,000 - $49,999" -> 3
          [] s = "$50,000 - $74,999" -> 4
          [] s = "$75,000 or greater" -> 5
          [] s = "18 - 24" -> 6
          [] s = "25 - 34" -> 7
          [] s = "35 - 44" -> 8
          [] s = "45 - 54" -> 9
          [] s = "55 - 64" -> 10
          [] s = "65 or older" -> 11
          [] OTHER -> 12]

KeyLE(a, b) ==
    \/ a[1] < b[1]
    \/ a[1] = b[1] /\ StrOrder[a[2]] <= StrOrder[b[2]]

RECURSIVE SortKeys(_)
SortKeys(S) ==
    IF S = {} THEN <<>>
    ELSE LET m == CHOOSE k \in S : \A j \in S : KeyLE(k, j)
         IN  <<m>> \o SortKeys(S \ {m})

\* groupby(["YearStart", "Stratification1"]): the keys, sorted, and a group
GroupKeys(df) ==
    SortKeys({<<df[i].YearStart, df[i].Stratification1>> : i \in DOMAIN df})

Group(df, k) ==
    SelectSeq(df, LAMBDA r : r.YearStart = k[1] /\ r.Stratification1 = k[2])

RECURSIVE SumXW(_)
SumXW(g) ==
    IF g = <<>> THEN 0
    ELSE Head(g).Data_Value.n * Head(g).Sample_Size.n + SumXW(Tail(g))

RECURSIVE SumX(_)
SumX(g) == IF g = <<>> THEN 0 ELSE Head(g).Data_Value.n + SumX(Tail(g))

RECURSIVE SumW(_)
SumW(g) == IF g = <<>> THEN 0 ELSE Head(g).Sample_Size.n + SumW(Tail(g))

\* a plain mean of the group, ignoring the weights
unweighted_mean(group) == FloatDiv(SumX(group), Len(group))

\* (x * w).sum() / w.sum()
weighted_mean(group) == FloatDiv(SumXW(group), SumW(group))

\* groupby(...).apply(weighted_mean).reset_index(name=...)
Aggregate(df) ==
    LET ks == GroupKeys(df)
    IN  [i \in DOMAIN ks |->
            [YearStart |-> ks[i][1], Stratification1 |-> ks[i][2],
             Data_Value |-> weighted_mean(Group(df, ks[i]))]]

\* What preprocessing + groupby + apply + reset_index can end in.  With no
\* row left there is no group: apply returns an empty frame, which
\* reset_index(name=...) rejects in some pandas versions and accepts as an
\* empty result in others.  With a row left and a text Data_Value column,
\* x * w raises.
AggregateOutcomes(raw) ==
    LET df == dropna(CoerceSampleSize(raw))
    IN  IF df = <<>>
        THEN {[status |-> "error", table |-> <<>>],
              [status |-> "built", table |-> <<>>]}
        ELSE IF ObjectColumn(raw)
        THEN {[status |-> "error", table |-> <<>>]}
        ELSE {[status |-> "built", table |-> Aggregate(df)]}

---------------------------------------------------------------------------
(* make_age_heatmap *)

make_age_heatmap(df_age) ==
    {[chart |-> o.status,
      df_nat |-> [i \in DOMAIN o.table |->
                     [year |-> o.table[i].YearStart,
                      age_group |-> o.table[i].Stratification1,
                      obesity_rate |-> o.table[i].Data_Value]]]
        : o \in AggregateOutcomes(df_age)}

---------------------------------------------------------------------------
(* make_income_trend *)

BaseYear == 2011

\* df_inc_agg[df_inc_agg["YearStart"] == 2011][["Stratification1",
\* "Data_Value"]].rename(columns={"Data_Value": "Base_2011"})
base_2011(agg) ==
    LET sel == SelectSeq(agg, LAMBDA r : r.YearStart = BaseYear)
    IN  [i \in DOMAIN sel |->
            [Stratification1 |-> sel[i].Stratification1,
             Base_2011 |-> sel[i].Data_Value]]

WithBase(r, b) ==
    [YearStart |-> r.YearStart, Stratification1 |-> r.Stratification1,
     Data_Value |-> r.Data_Value, Base_2011 |-> b]

\* an inner join: a left row without a match is dropped
RECURSIVE merge_inner(_, _)
merge_inner(left, right) ==
    IF left = <<>> THEN <<>>
    ELSE LET r == Head(left)
             m == SelectSeq(right,
                      LAMBDA b : b.Stratification1 = r.Stratification1)
         IN  [j \in DOMAIN m |-> WithBase(r, m[j].Base_2011)]
                 \o merge_inner(Tail(left), right)

\* pd.merge(left, right, on="Stratification1", how="left"): the left rows in
\* their order, one output row per matching right row, and one row with a
\* missing Base_2011 for a left row that matches none
RECURSIVE merge_left(_, _)
merge_left(left, right) ==
    IF left = <<>> THEN <<>>
    ELSE LET r == Head(left)
             m == SelectSeq(right,
                      LAMBDA b : b.Stratification1 = r.Stratification1)
         IN  (IF m = <<>> THEN <<WithBase(r, NaN)>>
              ELSE [j \in DOMAIN m |-> WithBase(r, m[j].Base_2011)])
                 \o merge_left(Tail(left), right)

\* a growth with the operands swapped
growth_swapped(cur, base) == FloatSub(base, cur)

\* df_inc_agg["Data_Value"] - df_inc_agg["Base_2011"]
growth(cur, base) == FloatSub(cur, base)

AddGrowth(df) ==
    [i \in DOMAIN df |->
        [YearStart |-> df[i].YearStart,
         Stratification1 |-> df[i].Stratification1,
         Data_Value |-> df[i].Data_Value, Base_2011 |-> df[i].Base_2011,
         Growth |-> growth(df[i].Data_Value, df[i].Base_2011)]]

make_income_trend(df_income) ==
    {[chart |-> o.status,
      df_inc_agg |-> AddGrowth(merge_left(o.table, base_2011(o.table)))]
        : o \in AggregateOutcomes(df_income)}

---------------------------------------------------------------------------
(* The inputs a builder is called with *)

Years == {2011, 2015}
AgeCats == {"18 - 24", "25 - 34"}
IncomeCats == {"Less than $15,000", "$75,000 or greater"}

\* the (Data_Value, Sample_Size) cells of a row: two values v1 < v2 with
\* positive, zero and negative sample sizes, a missing and a text value, a
\* missing and a text sample size
Cells(v1, v2) ==
    {<<Fin(v1), Fin(100)>>, <<Fin(v2), Fin(300)>>, <<Fin(v1), Fin(0)>>,
     <<Fin(v1), Fin(-100)>>, <<NaN, Fin(100)>>, <<Str, Fin(100)>>,
     <<Fin(v1), NaN>>, <<Fin(v1), Str>>}

SurveyRow(y, c, v, w) ==
    [YearStart |-> y, Stratification1 |-> c, Data_Value |-> v,
     Sample_Size |-> w]

AgeRows ==
    {SurveyRow(y, c, x[1], x[2]) :
        y \in Years, c \in AgeCats, x \in Cells(280, 320)}

IncomeRows ==
    {SurveyRow(y, c, x[1], x[2]) :
        y \in Years, c \in IncomeCats, x \in Cells(300, 335)}

\* df is a table of at most MaxRows rows of Rows
IsTable(df, Rows) == \E n \in 0..MaxRows : df \in [1..n -> Rows]

OutputFiles == {"age_heatmap.html", "trend_map.html", "income_gap.html"}
InputFiles == {"clean_map.csv", "clean_heatmap.csv", "clean_income.csv"}

Idle ==
    /\ files = InputFiles
    /\ disk = [f \in OutputFiles |-> "absent"]
    /\ raised = "none"
    /\ df_map_raw = <<>>
    /\ df_map = <<>>
    /\ trend_map_chart = "none"
    /\ hover_year = {}
    /\ df_nat = <<>>
    /\ age_chart = "none"
    /\ df_inc_agg = <<>>
    /\ income_chart = "none"

\* one builder called on one table
Init ==
    /\ Idle
    /\ \/ /\ pc = "age"
          /\ IsTable(df_age_raw, AgeRows)
          /\ df_income_raw = <<>>
       \/ /\ pc = "income"
          /\ IsTable(df_income_raw, IncomeRows)
          /\ df_age_raw = <<>>

CallAgeHeatmap ==
    /\ pc = "age"
    /\ \E o \in make_age_heatmap(df_age_raw) :
          /\ age_chart' = o.chart
          /\ df_nat' = o.df_nat
    /\ pc' = "returned"
    /\ UNCHANGED <<files, disk, raised, df_map_raw, df_age_raw, df_income_raw, df_map,
                   trend_map_chart, hover_year, df_inc_agg, income_chart>>

CallIncomeTrend ==
    /\ pc = "income"
    /\ \E o \in make_income_trend(df_income_raw) :
          /\ income_chart' = o.chart
          /\ df_inc_agg' = o.df_inc_agg
    /\ pc' = "returned"
    /\ UNCHANGED <<files, disk, raised, df_map_raw, df_age_raw, df_income_raw, df_map,
                   trend_map_chart, hover_year, df_nat, age_chart>>

Next == CallAgeHeatmap \/ CallIncomeTrend

Spec == Init /\ [][Next]_vars

---------------------------------------------------------------------------
(* What the claims compare the builders' output with: sums taken directly  *)
(* over the row numbers of the raw table.                                  *)

\* the rows of key (y, c) with a numeric sample size and a value present
ValidIdx(T, y, c) ==
    {i \in DOMAIN T : /\ T[i].YearStart = y
                      /\ T[i].Stratification1 = c
                      /\ T[i].Sample_Size.t = "fin"
                      /\ T[i].Data_Value.t # "nan"}

RECURSIVE ExpNum(_, _)
ExpNum(T, S) ==
    IF S = {} THEN 0
    ELSE LET i == CHOOSE j \in S : TRUE
         IN  T[i].Data_Value.n * T[i].Sample_Size.n + ExpNum(T, S \ {i})

RECURSIVE ExpDen(_, _)
ExpDen(T, S) ==
    IF S = {} THEN 0
    ELSE LET i == CHOOSE j \in S : TRUE
         IN  T[i].Sample_Size.n + ExpDen(T, S \ {i})

\* rate is the float n / d
RateIs(rate, n, d) ==
    IF d # 0 THEN rate.t = "fin" /\ rate.d > 0 /\ rate.n * d = n * rate.d
    ELSE IF n = 0 THEN rate.t = "nan"
    ELSE rate.t = "inf" /\ (rate.n > 0 <=> n > 0)

\* the aggregated points of a built table, as (year, category, rate)
AgePoints ==
    [i \in DOMAIN df_nat |->
        <<df_nat[i].year, df_nat[i].age_group, df_nat[i].obesity_rate>>]

IncomePoints ==
    [i \in DOMAIN df_inc_agg |->
        <<df_inc_agg[i].YearStart, df_inc_agg[i].Stratification1,
          df_inc_agg[i].Data_Value>>]

\* in table T aggregated to the points P: key (y, c) has exactly one point,
\* whose rate is the weighted mean of the key's valid rows, or no point when
\* it has no valid row
KeyAggregated(T, P, y, c) ==
    LET S == ValidIdx(T, y, c)
        at == {i \in DOMAIN P : P[i][1] = y /\ P[i][2] = c}
    IN  IF S = {} THEN at = {}
        ELSE /\ Cardinality(at) = 1
             /\ \A i \in at : RateIs(P[i][3], ExpNum(T, S), ExpDen(T, S))

(* C1: in a built age or income table, every (year, category) key with a   *)
(* row whose sample size is numeric and whose value is present has exactly *)
(* one aggregated point, and its rate is sum(value * weight) / sum(weight) *)
(* over exactly those rows; a key with no such row has no point.           *)
C1_WeightedMeanPerKey ==
    /\ age_chart = "built" =>
          \A y \in Years, c \in AgeCats :
              KeyAggregated(df_age_raw, AgePoints, y, c)
    /\ income_chart = "built" =>
          \A y \in Years, c \in IncomeCats :
              KeyAggregated(df_income_raw, IncomePoints, y, c)

\* rows (2015, "18 - 24", 28.0, 100) and (2015, "18 - 24", 32.0, 300), with
\* a row of a missing sample size between them, aggregated to 31.0
C1_Witness ==
    /\ age_chart = "built"
    /\ df_age_raw = <<SurveyRow(2015, "18 - 24", Fin(280), Fin(100)),
                      SurveyRow(2015, "18 - 24", Fin(280), NaN),
                      SurveyRow(2015, "18 - 24", Fin(320), Fin(300))>>
    /\ df_nat = <<[year |-> 2015, age_group |-> "18 - 24",
                   obesity_rate |-> Fin(310)]>>

\* the rate of key (y, c) lies within the values of its valid rows
WithinGroupRange(T, P, y, c) ==
    LET S == ValidIdx(T, y, c)
    IN  (\E i \in S : T[i].Sample_Size.n > 0) =>
            \A k \in DOMAIN P :
                (P[k][1] = y /\ P[k][2] = c) =>
                    /\ P[k][3].t = "fin"
                    /\ \E i \in S : T[i].Data_Value.n * P[k][3].d <= P[k][3].n
                    /\ \E i \in S : P[k][3].n <= T[i].Data_Value.n * P[k][3].d

(* C2: for every group that reaches weighted_mean with at least one        *)
(* positive-weight row, the aggregated rate lies within [min(value),       *)
(* max(value)] of the group.                                               *)
C2_RateWithinGroupRange ==
    /\ age_chart = "built" =>
          \A y \in Years, c \in AgeCats :
              WithinGroupRange(df_age_raw, AgePoints, y, c)
    /\ income_chart = "built" =>
          \A y \in Years, c \in IncomeCats :
              WithinGroupRange(df_income_raw, IncomePoints, y, c)

\* the 2011 rows of a category in the joined income table
BaselineRows(c) ==
    {j \in DOMAIN df_inc_agg : /\ df_inc_agg[j].YearStart = 2011
                               /\ df_inc_agg[j].Stratification1 = c}

(* C3: in a built income table, for every category whose 2011 rate is a    *)
(* defined (finite) number b, the 2011 row has growth 0 and every other    *)
(* row has growth = its rate - b.                                          *)
C3_GrowthSinceBaseline ==
    income_chart = "built" =>
        \A i \in DOMAIN df_inc_agg :
            \A j \in BaselineRows(df_inc_agg[i].Stratification1) :
                LET r == df_inc_agg[i]
                    b == df_inc_agg[j].Data_Value
                    x == r.Data_Value
                IN  b.t = "fin" =>
                        /\ r.YearStart = 2011 => r.Growth = Fin(0)
                        /\ x.t = "fin" =>
                              /\ r.Growth.t = "fin"
                              /\ r.Growth.d > 0
                              /\ r.Growth.n * (x.d * b.d)
                                    = (x.n * b.d - b.n * x.d) * r.Growth.d
                        /\ x.t = "inf" => r.Growth = x
                        /\ x.t = "nan" => r.Growth.t = "nan"

\* "Less than $15,000" at 30.0 in 2011 and 33.5 in 2015: growth 0 and 3.5
C3_Witness ==
    /\ income_chart = "built"
    /\ Len(df_inc_agg) = 2
    /\ df_inc_agg[1] = [YearStart |-> 2011,
                        Stratification1 |-> "Less than $15,000",
                        Data_Value |-> Fin(300), Base_2011 |-> Fin(300),
                        Growth |-> Fin(0)]
    /\ df_inc_agg[2] = [YearStart |-> 2015,
                        Stratification1 |-> "Less than $15,000",
                        Data_Value |-> Fin(335), Base_2011 |-> Fin(300),
                        Growth |-> Fin(35)]

\* the keys of the raw income table that have a valid row
IncomeKeys ==
    {k \in Years \X IncomeCats : ValidIdx(df_income_raw, k[1], k[2]) # {}}

(* C4: the baseline join keeps the aggregated income table as it is: one   *)
(* row per aggregated (year, category), in the aggregated order, none      *)
(* dropped and none duplicated; a category has at most one 2011 row; and a *)
(* row whose category has no 2011 row has a missing Base_2011 and a        *)
(* missing Growth, not a Growth of zero.                                   *)
C4_LeftJoinKeepsRows ==
    income_chart = "built" =>
        /\ Len(df_inc_agg) = Cardinality(IncomeKeys)
        /\ \A k \in IncomeKeys :
              \E i \in DOMAIN df_inc_agg :
                  /\ df_inc_agg[i].YearStart = k[1]
                  /\ df_inc_agg[i].Stratification1 = k[2]
        /\ \A i, j \in DOMAIN df_inc_agg :
              i < j => KeyLE(<<IncomePoints[i][1], IncomePoints[i][2]>>,
                             <<IncomePoints[j][1], IncomePoints[j][2]>>)
        /\ \A c \in IncomeCats : Cardinality(BaselineRows(c)) <= 1
        /\ \A i \in DOMAIN df_inc_agg :
              LET r == df_inc_agg[i]
              IN  /\ BaselineRows(r.Stratification1) = {} =>
                        /\ r.Base_2011.t = "nan"
                        /\ r.Growth.t = "nan"
                  /\ \A j \in BaselineRows(r.Stratification1) :
                        r.Base_2011 = df_inc_agg[j].Data_Value

\* one category with a 2011 row and one without
C4_Witness ==
    /\ income_chart = "built"
    /\ Len(df_inc_agg) = 3
    /\ df_inc_agg[1].YearStart = 2011
    /\ df_inc_agg[1].Stratification1 = "$75,000 or greater"
    /\ df_inc_agg[2].YearStart = 2015
    /\ df_inc_agg[2].Stratification1 = "$75,000 or greater"
    /\ df_inc_agg[2].Growth.t = "fin"
    /\ df_inc_agg[3].YearStart = 2015
    /\ df_inc_agg[3].Stratification1 = "Less than $15,000"
    /\ df_inc_agg[3].Data_Value.t = "fin"
    /\ df_inc_agg[3].Base_2011.t = "nan"
    /\ df_inc_agg[3].Growth.t = "nan"

\* the rows with a numeric sample size and a numeric value
ValidRows(T) ==
    SelectSeq(T, LAMBDA r : r.Sample_Size.t = "fin" /\ r.Data_Value.t = "fin")

(* C7: a row with a missing or non-numeric Sample_Size or Data_Value is    *)
(* excluded: the builder ends as it does on the table without such rows,   *)
(* and not in an error those rows cause.                                   *)
C7_InvalidRowsExcluded ==
    /\ age_chart # "none" =>
          [chart |-> age_chart, df_nat |-> df_nat]
              \in make_age_heatmap(ValidRows(df_age_raw))
    /\ income_chart # "none" =>
          [chart |-> income_chart, df_inc_agg |-> df_inc_agg]
              \in make_income_trend(ValidRows(df_income_raw))

\* a key whose valid rows all have weight zero
ZeroWeightKey(T, y, c) ==
    /\ ValidIdx(T, y, c) # {}
    /\ \A i \in ValidIdx(T, y, c) : T[i].Sample_Size.n = 0

NoTextValue(T) == \A i \in DOMAIN T : T[i].Data_Value.t # "str"

ZeroWeightGroupsMissing(T, P, chart, Cats) ==
    /\ (chart = "built") =>
          \A y \in Years, c \in Cats :
              LET S == ValidIdx(T, y, c)
              IN  \A k \in DOMAIN P :
                      (P[k][1] = y /\ P[k][2] = c) =>
                          IF ZeroWeightKey(T, y, c) THEN P[k][3].t = "nan"
                          ELSE RateIs(P[k][3], ExpNum(T, S), ExpDen(T, S))
    /\ (/\ chart # "none"
        /\ NoTextValue(T)
        /\ \E y \in Years, c \in Cats : ZeroWeightKey(T, y, c))
          => chart = "built"

(* C10: a group whose rows all have weight zero gets a missing rate (NaN), *)
(* the builder does not fail on it, the other groups keep their weighted   *)
(* means, and in the income table a growth computed from a missing rate or *)
(* a missing baseline is missing.                                          *)
C10_ZeroWeightGroupIsMissing ==
    /\ ZeroWeightGroupsMissing(df_age_raw, AgePoints, age_chart, AgeCats)
    /\ ZeroWeightGroupsMissing(df_income_raw, IncomePoints, income_chart,
                               IncomeCats)
    /\ income_chart = "built" =>
          \A i \in DOMAIN df_inc_agg :
              (\/ df_inc_agg[i].Data_Value.t = "nan"
               \/ df_inc_agg[i].Base_2011.t = "nan")
                  => df_inc_agg[i].Growth.t = "nan"

\* the 2011 group of a category has only zero weights: its rate, the
\* category's baseline and the growth of its 2015 row are missing, and the
\* other category keeps its rate
C10_Witness ==
    /\ income_chart = "built"
    /\ df_income_raw = <<SurveyRow(2011, "Less than $15,000", Fin(300), Fin(0)),
                         SurveyRow(2015, "Less than $15,000", Fin(335), Fin(300)),
                         SurveyRow(2015, "$75,000 or greater", Fin(300),
                                   Fin(100))>>
    /\ Len(df_inc_agg) = 3
    /\ df_inc_agg[1].Data_Value = NaN
    /\ df_inc_agg[2].Data_Value = Fin(300)
    /\ df_inc_agg[3].Data_Value = Fin(335)
    /\ df_inc_agg[3].Base_2011 = NaN
    /\ df_inc_agg[3].Growth = NaN

---------------------------------------------------------------------------
(* make_trend_and_map *)

state_id_pairs ==
    {<<"AL", 1>>, <<"AK", 2>>, <<"AZ", 4>>, <<"AR", 5>>, <<"CA", 6>>,
     <<"CO", 8>>, <<"CT", 9>>, <<"DE", 10>>, <<"FL", 12>>, <<"GA", 13>>,
     <<"HI", 15>>, <<"ID", 16>>, <<"IL", 17>>, <<"IN", 18>>, <<"IA", 19>>,
     <<"KS", 20>>, <<"KY", 21>>, <<"LA", 22>>, <<"ME", 23>>, <<"MD", 24>>,
     <<"MA", 25>>, <<"MI", 26>>, <<"MN", 27>>, <<"MS", 28>>, <<"MO", 29>>,
     <<"MT", 30>>, <<"NE", 31>>, <<"NV", 32>>, <<"NH", 33>>, <<"NJ", 34>>,
     <<"NM", 35>>, <<"NY", 36>>, <<"NC", 37>>, <<"ND", 38>>, <<"OH", 39>>,
     <<"OK", 40>>, <<"OR", 41>>, <<"PA", 42>>, <<"RI", 44>>, <<"SC", 45>>,
     <<"SD", 46>>, <<"TN", 47>>, <<"TX", 48>>, <<"UT", 49>>, <<"VT", 50>>,
     <<"VA", 51>>, <<"WA", 53>>, <<"WV", 54>>, <<"WI", 55>>, <<"WY", 56>>,
     <<"DC", 11>>}

state_id_map ==
    [a \in {p[1] : p \in state_id_pairs} |->
        (CHOOSE p \in state_id_pairs : p[1] = a)[2]]

\* df_map["LocationAbbr"].map(state_id_map): NaN for a key not in the dict
MapId(abbr) ==
    IF abbr \in DOMAIN state_id_map THEN Fin(state_id_map[abbr]) ELSE NaN

make_trend_and_map(df_map_in) ==
    [chart |-> "built",
     df_map |-> [i \in DOMAIN df_map_in |->
                    [YearStart |-> df_map_in[i].YearStart,
                     LocationAbbr |-> df_map_in[i].LocationAbbr,
                     Data_Value |-> df_map_in[i].Data_Value,
                     id |-> MapId(df_map_in[i].LocationAbbr)]]]

\* a selection filter whose empty selection lets every row through
selected_empty_all(sel, r) == sel = {} \/ r.YearStart \in sel

\* transform_filter(hover_year) with fields=["YearStart"], empty="none"
selected(sel, r) == r.YearStart \in sel

\* transform_lookup(lookup="id", from_=states): a row gets a geometry when
\* its id is the id of a state of the topology, which every id of
\* state_id_map is; a row with a missing id gets none
HasGeometry(r) == r.id.t = "fin"

\* the rows the map view draws a shape for
MapRows == SelectSeq(df_map, LAMBDA r : HasGeometry(r) /\ selected(hover_year, r))

RenderedRegions == {MapRows[i].LocationAbbr : i \in DOMAIN MapRows}

\* x="YearStart:O" over width=700: the distinct years, ascending, at the
\* centres of equal bands
Width == 700

XPos(Ys, y) ==
    ((2 * Cardinality({z \in Ys : z <= y}) - 1) * Width)
        \div (2 * Cardinality(Ys))

\* nearest=True: the year(s) of the selector points closest to the pointer
Nearest(Ys, px) ==
    {y \in Ys : \A z \in Ys : Abs(XPos(Ys, y) - px) <= Abs(XPos(Ys, z) - px)}

MapYears == {df_map[i].YearStart : i \in DOMAIN df_map}

PointerXs == {100 * k : k \in 0..7}

MapAbbrs == {"AL", "TX", "DC", "ZZ"}

MapInputRows ==
    [YearStart : {2011, 2015, 2016}, LocationAbbr : MapAbbrs,
     Data_Value : {Fin(280)}]

InitMap ==
    /\ files = InputFiles
    /\ disk = [f \in OutputFiles |-> "absent"]
    /\ raised = "none"
    /\ pc = "trend"
    /\ IsTable(df_map_raw, MapInputRows)
    /\ df_age_raw = <<>>
    /\ df_income_raw = <<>>
    /\ df_map = <<>>
    /\ trend_map_chart = "none"
    /\ hover_year = {}
    /\ df_nat = <<>>
    /\ age_chart = "none"
    /\ df_inc_agg = <<>>
    /\ income_chart = "none"

CallTrendAndMap ==
    /\ pc = "trend"
    /\ LET o == make_trend_and_map(df_map_raw)
       IN  /\ trend_map_chart' = o.chart
           /\ df_map' = o.df_map
    /\ pc' = "rendered"
    /\ UNCHANGED <<files, disk, raised, df_map_raw, df_age_raw, df_income_raw,
                   hover_year, df_nat, age_chart, df_inc_agg, income_chart>>

\* on="mouseover": the pointer comes over the trend view at px
MouseOver(px) ==
    /\ pc = "rendered"
    /\ trend_map_chart = "built"
    /\ \E y \in Nearest(MapYears, px) : hover_year' = {y}
    /\ UNCHANGED <<files, disk, raised, pc, df_map_raw, df_age_raw, df_income_raw,
                   df_map, trend_map_chart, df_nat, age_chart, df_inc_agg,
                   income_chart>>

\* The pointer leaves the view.  The selection is declared without clear=,
\* so what empties it is the rendering library's default, which the source
\* does not state: the selection is kept or emptied.
PointerLeave ==
    /\ pc = "rendered"
    /\ trend_map_chart = "built"
    /\ hover_year' \in {hover_year, {}}
    /\ UNCHANGED <<files, disk, raised, pc, df_map_raw, df_age_raw, df_income_raw,
                   df_map, trend_map_chart, df_nat, age_chart, df_inc_agg,
                   income_chart>>

NextMap ==
    \/ CallTrendAndMap
    \/ \E px \in PointerXs : MouseOver(px)
    \/ PointerLeave

SpecMap == InitMap /\ [][NextMap]_vars

\* the regions with a row for year y and an entry in the region mapping
MappedRegionsOf(y) ==
    {a \in DOMAIN state_id_map :
        \E i \in DOMAIN df_map_raw : /\ df_map_raw[i].YearStart = y
                                     /\ df_map_raw[i].LocationAbbr = a}

(* C5: in the built trend+map view, an empty selection renders no region;  *)
(* a selection holds a year present in the data and renders exactly the    *)
(* regions with a row for that year and an entry in the region mapping;    *)
(* "ZZ" is never rendered, and building never fails on it.                 *)
C5_MapRendersSelectedYear ==
    /\ pc = "rendered" => trend_map_chart = "built"
    /\ trend_map_chart = "built" =>
          /\ hover_year = {} => RenderedRegions = {}
          /\ \A y \in hover_year :
                /\ \E i \in DOMAIN df_map_raw : df_map_raw[i].YearStart = y
                /\ RenderedRegions = MappedRegionsOf(y)
          /\ "ZZ" \notin RenderedRegions

\* 2015 is selected: of "AL" and "ZZ" in 2015 and "TX" in 2011, only "AL"
\* is rendered
C5_Witness ==
    /\ trend_map_chart = "built"
    /\ hover_year = {2015}
    /\ \E i \in DOMAIN df_map_raw : /\ df_map_raw[i].LocationAbbr = "ZZ"
                                    /\ df_map_raw[i].YearStart = 2015
    /\ \E i \in DOMAIN df_map_raw : /\ df_map_raw[i].LocationAbbr = "TX"
                                    /\ df_map_raw[i].YearStart = 2011
    /\ RenderedRegions = {"AL"}

---------------------------------------------------------------------------
(* load_data and the __main__ script *)

\* a loader that only misses the first file
load_data_first_only(present) ==
    IF "clean_map.csv" \in present THEN "ok" ELSE "FileNotFoundError"

\* three pd.read_csv calls: each raises when its file is absent
load_data(present) ==
    IF /\ "clean_map.csv" \in present
       /\ "clean_heatmap.csv" \in present
       /\ "clean_income.csv" \in present
    THEN "ok" ELSE "FileNotFoundError"

\* an export whose error is swallowed: the script goes on
after_save_error_continue(next) == next

\* chart.save raises: nothing catches it, the script ends
after_save_error(next) == "failed"

\* what the files hold in a run of the whole script
RunMapTables ==
    {<<[YearStart |-> 2015, LocationAbbr |-> "AL", Data_Value |-> Fin(280)],
       [YearStart |-> 2015, LocationAbbr |-> "ZZ", Data_Value |-> Fin(320)]>>}

RunAgeTables ==
    {<<SurveyRow(2015, "18 - 24", Fin(280), Fin(100)),
       SurveyRow(2015, "18 - 24", Fin(320), Fin(300))>>,
     <<SurveyRow(2015, "18 - 24", Str, Fin(100))>>}

RunIncomeTables ==
    {<<SurveyRow(2011, "Less than $15,000", Fin(300), Fin(100)),
       SurveyRow(2015, "Less than $15,000", Fin(335), Fin(100))>>,
     <<SurveyRow(2011, "Less than $15,000", Fin(300), Str)>>}

InitRun ==
    /\ files \in SUBSET InputFiles
    /\ disk \in [OutputFiles -> {"absent", "stale"}]
    /\ pc = "load"
    /\ raised = "none"
    /\ df_map_raw = <<>>
    /\ df_age_raw = <<>>
    /\ df_income_raw = <<>>
    /\ df_map = <<>>
    /\ trend_map_chart = "none"
    /\ hover_year = {}
    /\ df_nat = <<>>
    /\ age_chart = "none"
    /\ df_inc_agg = <<>>
    /\ income_chart = "none"

\* df_map_raw, df_age_raw, df_income_raw = load_data()
LoadData ==
    /\ pc = "load"
    /\ IF load_data(files) = "ok"
       THEN /\ df_map_raw' \in RunMapTables
            /\ df_age_raw' \in RunAgeTables
            /\ df_income_raw' \in RunIncomeTables
            /\ pc' = "age"
            /\ UNCHANGED raised
       ELSE /\ pc' = "failed"
            /\ raised' = "load"
            /\ UNCHANGED <<df_map_raw, df_age_raw, df_income_raw>>
    /\ UNCHANGED <<files, disk, df_map, trend_map_chart, hover_year, df_nat,
                   age_chart, df_inc_agg, income_chart>>

\* age_chart = make_age_heatmap(df_age_raw)
MainAgeHeatmap ==
    /\ pc = "age"
    /\ \E o \in make_age_heatmap(df_age_raw) :
          /\ age_chart' = o.chart
          /\ df_nat' = o.df_nat
          /\ pc' = IF o.chart = "built" THEN "trend" ELSE "failed"
          /\ raised' = IF o.chart = "built" THEN raised ELSE "age"
    /\ UNCHANGED <<files, disk, df_map_raw, df_age_raw, df_income_raw, df_map,
                   trend_map_chart, hover_year, df_inc_agg, income_chart>>

\* trend_map_chart = make_trend_and_map(df_map_raw)
MainTrendAndMap ==
    /\ pc = "trend"
    /\ LET o == make_trend_and_map(df_map_raw)
       IN  /\ trend_map_chart' = o.chart
           /\ df_map' = o.df_map
    /\ pc' = "income"
    /\ UNCHANGED <<files, disk, raised, df_map_raw, df_age_raw, df_income_raw,
                   hover_year, df_nat, age_chart, df_inc_agg, income_chart>>

\* income_chart = make_income_trend(df_income_raw)
MainIncomeTrend ==
    /\ pc = "income"
    /\ \E o \in make_income_trend(df_income_raw) :
          /\ income_chart' = o.chart
          /\ df_inc_agg' = o.df_inc_agg
          /\ pc' = IF o.chart = "built" THEN "save_age" ELSE "failed"
          /\ raised' = IF o.chart = "built" THEN raised ELSE "income"
    /\ UNCHANGED <<files, disk, df_map_raw, df_age_raw, df_income_raw, df_map,
                   trend_map_chart, hover_year, df_nat, age_chart>>

\* chart.save(f) at position at: the file is written, or the write raises
\* and leaves the file as it was or cut short
Save(at, f, next) ==
    /\ pc = at
    /\ \/ /\ disk' = [disk EXCEPT ![f] = "written"]
          /\ pc' = next
          /\ UNCHANGED raised
       \/ /\ \E left \in {disk[f], "partial"} :
                disk' = [disk EXCEPT ![f] = left]
          /\ pc' = after_save_error(next)
          /\ raised' = at
    /\ UNCHANGED <<files, df_map_raw, df_age_raw, df_income_raw, df_map,
                   trend_map_chart, hover_year, df_nat, age_chart, df_inc_agg,
                   income_chart>>

SaveAge == Save("save_age", "age_heatmap.html", "save_trend")

SaveTrendMap == Save("save_trend", "trend_map.html", "save_income")

SaveIncome == Save("save_income", "income_gap.html", "print")

\* print("Saved: ...")
PrintSaved ==
    /\ pc = "print"
    /\ pc' = "done"
    /\ UNCHANGED <<files, disk, raised, df_map_raw, df_age_raw, df_income_raw,
                   df_map, trend_map_chart, hover_year, df_nat, age_chart,
                   df_inc_agg, income_chart>>

NextRun ==
    \/ LoadData
    \/ MainAgeHeatmap
    \/ MainTrendAndMap
    \/ MainIncomeTrend
    \/ SaveAge
    \/ SaveTrendMap
    \/ SaveIncome
    \/ PrintSaved

SpecRun == InitRun /\ [][NextRun]_vars

\* the run has written to file f
Touched(f) == disk[f] \in {"written", "partial"}

(* C8: the exports run in the order age_heatmap.html, trend_map.html,      *)
(* income_gap.html: a file is written to only after the ones before it     *)
(* were written in full; when a save raises, the run is over, no later     *)
(* file has been touched and the earlier ones are written; a finished run  *)
(* has written all three.                                                  *)
C8_ExportsArePrefix ==
    /\ Touched("trend_map.html") => disk["age_heatmap.html"] = "written"
    /\ Touched("income_gap.html") => disk["trend_map.html"] = "written"
    /\ raised = "save_age" =>
          /\ pc = "failed"
          /\ ~Touched("trend_map.html")
          /\ ~Touched("income_gap.html")
    /\ raised = "save_trend" =>
          /\ pc = "failed"
          /\ disk["age_heatmap.html"] = "written"
          /\ ~Touched("income_gap.html")
    /\ raised = "save_income" =>
          /\ pc = "failed"
          /\ disk["age_heatmap.html"] = "written"
          /\ disk["trend_map.html"] = "written"
    /\ pc = "done" => \A f \in OutputFiles : disk[f] = "written"

\* the second export failed part-way: the first file stays written, the
\* third is as it was before the run
C8_Witness ==
    /\ pc = "failed"
    /\ raised = "save_trend"
    /\ disk["age_heatmap.html"] = "written"
    /\ disk["trend_map.html"] = "partial"
    /\ disk["income_gap.html"] = "stale"

(* C9: with any input file absent the run fails in load_data: no table is  *)
(* aggregated, no chart is built and no output file is written to.         *)
C9_MissingInputAbortsFirst ==
    (files # InputFiles) =>
        /\ pc \in {"load", "failed"}
        /\ pc = "failed" => raised = "load"
        /\ age_chart = "none" /\ trend_map_chart = "none"
        /\ income_chart = "none"
        /\ df_nat = <<>> /\ df_inc_agg = <<>> /\ df_map = <<>>
        /\ \A f \in OutputFiles : ~Touched(f)

\* the last file read is the missing one
C9_Witness ==
    /\ files = {"clean_map.csv", "clean_heatmap.csv"}
    /\ pc = "failed"
    /\ raised = "load"
    /\ \A f \in OutputFiles : ~Touched(f)

====
